---- MODULE Spec2Model ----
(***************************************************************************)
(* Two-player Minesweeper: the session coordinator of src/server.py and    *)
(* the board / reveal logic of src/client.py.                              *)
(*                                                                         *)
(* Spec        the server: connect, player_finished, disconnect.           *)
(* SpecClient  one client: game_start, left click, right click, game_over, *)
(*             game_completed on a board drawn from the seeded stream.     *)
(***************************************************************************)
EXTENDS Integers, Sequences, FiniteSets, TLC

VARIABLES
    \* ---- server: game_state of src/server.py ----
    players,        \* game_state['players']: insertion-ordered dict, as a sequence of slots
    board_seed,     \* game_state['board_seed']
    game_started,   \* game_state['game_started']
    game_finished,  \* game_state['game_finished']
    rejected,       \* sids refused by handle_connect whose disconnect has not been processed
    emits,          \* the sio.emit calls of the last handler, in order
    last,           \* the last handler run: event, sid, randint drawn?, exception raised
    pc_seed,        \* per sid: board_seed of the last player_connected sent to it
    fresh,          \* the sids whose report was recorded since the latest game_start
    \* ---- client: MinesweeperMultiplayer of src/client.py ----
    stream,         \* the seeded pseudo-random stream: per seed, per draw, "sample < 0.1"
    rng,            \* the state of the random module's generator: its seed, draws consumed
    c_seed,         \* self.board_seed
    c_started,      \* self.game_started
    is_game_completed, \* self.is_game_completed
    isMine,         \* tile["isMine"] per tile
    tmines,         \* tile["mines"] per tile: the adjacent-mine count
    state,          \* tile["state"] per tile
    clickedCount,   \* self.clickedCount
    flagCount,      \* self.flagCount
    correctFlagCount, \* self.correctFlagCount
    mines,          \* self.mines
    quit,           \* self.tk.quit() was called
    c_emits,        \* the self.sio.emit calls of the last client handler
    c_last,         \* the last client handler run and the tile it was given
    reported,       \* a player_finished was sent since the last game_start
    stack,          \* the calls of clearSurroundingTiles in progress: tile, next neighbour
    fill            \* the left click being run step by step: idle, running, done

svars == <<players, board_seed, game_started, game_finished, rejected, emits, last, pc_seed,
           fresh>>
cvars == <<stream, rng, c_seed, c_started, is_game_completed, isMine, tmines, state, clickedCount,
           flagCount, correctFlagCount, mines, quit, c_emits, c_last, reported, stack, fill>>
vars == <<svars, cvars>>

\* ------------------------------------------------------------------ bounds
\* connection ids in use at once (a closed connection's id may be reused)
NumSids == 3
\* random.randint(1, 1000000) scaled down to 1..MaxSeed
MaxSeed == 2

Sids == 1..NumSids
Seeds == 1..MaxSeed

\* Python None, where a string or a player id is expected
None == "None"
\* Python None as the value of board_seed (randint never returns 0; "not 0" is true too)
NoSeed == 0
\* a JSON number sent as game_time (a non-string, truthy value)
IntTime == "<int 45>"
\* the game_time values a client can send; None is a payload without the key
GameTimes == {"00:00:45", "00:01:10", "garbage", "", IntTime, None}

\* ------------------------------------------------------------------ server helpers
PlayerSids(ps) == {ps[i].sid : i \in DOMAIN ps}

\* the slot of sid in the players dict
SlotOf(ps, sid) == CHOOSE i \in DOMAIN ps : ps[i].sid = sid

\* Python truthiness of a finished_time
Truthy(v) == v /= None /\ v /= ""

\* datetime.strptime(v, '%H:%M:%S'): what it raises, or "ok"
StrptimeRaises(v) ==
    IF v \in {None, IntTime} THEN "TypeError"
    ELSE IF v \in {"00:00:45", "00:01:10"} THEN "ok"
    ELSE "ValueError"

\* datetime.strptime(v, '%H:%M:%S') as seconds after 1900-01-01 00:00:00
Strptime(v) ==
    CASE v = "00:00:45" -> 45
      [] v = "00:01:10" -> 70

\* variant: every connection is labelled "Player B"
get_player_id_dup(ps) == "Player B"
\* get_player_id()
get_player_id(ps) == IF Len(ps) = 0 THEN "Player A" ELSE "Player B"

\* variant: the seed survives the reset
reset_game_keeps_seed(seed) == [board_seed |-> seed, game_started |-> FALSE, game_finished |-> FALSE]
\* variant: the reset leaves game_finished as it is
reset_game_keeps_finished(seed) ==
    [board_seed |-> NoSeed, game_started |-> FALSE, game_finished |-> game_finished]
\* reset_game(): the three fields it assigns
reset_game(seed) == [board_seed |-> NoSeed, game_started |-> FALSE, game_finished |-> FALSE]

\* variant: a third connection is let in
IsFull_off_by_one(ps) == Len(ps) >= 3
\* handle_connect: "if len(game_state['players']) >= 2"
IsFull(ps) == Len(ps) >= 2

\* variant: a recorded time is not replaced
RecordTime_keeps_first(ps, sid, game_time) ==
    IF ps[SlotOf(ps, sid)].finished_time /= None THEN ps
    ELSE [ps EXCEPT ![SlotOf(ps, sid)].finished_time = game_time]
\* "game_state['players'][sid]['finished_time'] = data.get('game_time')"
RecordTime(ps, sid, game_time) == [ps EXCEPT ![SlotOf(ps, sid)].finished_time = game_time]

\* finished_players: the slots with a truthy finished_time, in dict order
FinishedPlayers(ps) == SelectSeq(ps, LAMBDA p : Truthy(p.finished_time))

\* variant: one recorded time is enough to conclude
AllFinished_one(fin) == Len(fin) >= 1
\* "if len(finished_players) == 2"
AllFinished(fin) == Len(fin) = 2

\* the first exception min() meets evaluating the key on the items in order, or "ok"
RECURSIVE KeyRaises(_, _)
KeyRaises(fin, i) ==
    IF i > Len(fin) THEN "ok"
    ELSE IF StrptimeRaises(fin[i].finished_time) /= "ok"
         THEN StrptimeRaises(fin[i].finished_time)
         ELSE KeyRaises(fin, i + 1)

\* min(items, key=strptime): the first item with the smallest key
MinIndex(fin) ==
    CHOOSE i \in DOMAIN fin :
        /\ \A j \in DOMAIN fin : Strptime(fin[i].finished_time) <= Strptime(fin[j].finished_time)
        /\ \A j \in 1..(i - 1) : Strptime(fin[j].finished_time) > Strptime(fin[i].finished_time)

\* the try/except of handle_player_finished: the winner, or the exception that escapes
Winner(fin) ==
    LET r == KeyRaises(fin, 1) IN
    IF r = "TypeError" THEN [raised |-> "TypeError", winner |-> None]
    ELSE IF r = "ValueError" THEN [raised |-> "none", winner |-> fin[1].id]
    ELSE [raised |-> "none", winner |-> fin[MinIndex(fin)].id]

\* times = {player['id']: player['finished_time'] ...}: a later slot overwrites an equal id
Times(ps) ==
    [pid \in {ps[i].id : i \in DOMAIN ps} |->
        ps[CHOOSE i \in DOMAIN ps :
              /\ ps[i].id = pid
              /\ \A j \in DOMAIN ps : ps[j].id = pid => j <= i].finished_time]

\* the dict {}
EmptyDict == [pid \in {} |-> None]

\* one sio.emit(event, data, room=sid)
Emit(event, data, room) == [event |-> event, data |-> data, room |-> room]

\* "for p_sid in game_state['players']: sio.emit(event, data, room=p_sid)"
Broadcast(ps, event, data) == [i \in DOMAIN ps |-> Emit(event, data, ps[i].sid)]

\* variant: game_start goes to the new connection alone
GameStart_new_only(ps, seed) == <<Emit("game_start", [board_seed |-> seed], ps[Len(ps)].sid)>>
\* "Start game if two players are connected": the game_start emits
GameStart(ps, seed) == Broadcast(ps, "game_start", [board_seed |-> seed])

\* what is recorded of a handler run: the event and its sid, whether randint was called,
\* the exception that escaped, whether a recorded finished_time was replaced, and the
\* game_time of the payload
Ran(ev, sid, drew, raised, again, game_time) ==
    [ev |-> ev, sid |-> sid, drew |-> drew, raised |-> raised, again |-> again,
     game_time |-> game_time]

\* ------------------------------------------------------------------ server handlers
\* handle_connect(sid, environ)
handle_connect(sid) ==
    /\ sid \notin PlayerSids(players) \cup rejected
    /\ IF IsFull(players)
       THEN /\ emits' = <<Emit("connection_error", [message |-> "Game is full"], sid)>>
            /\ rejected' = rejected \cup {sid}
            /\ last' = Ran("connect", sid, FALSE, "none", FALSE, None)
            /\ UNCHANGED <<players, board_seed, game_started, game_finished, pc_seed, fresh>>
       ELSE \E drawn \in Seeds :
            LET draw == board_seed = NoSeed
                seed == IF draw THEN drawn ELSE board_seed
                player_id == get_player_id(players)
                ps == Append(players, [sid |-> sid, id |-> player_id, finished_time |-> None])
                connected == Emit("player_connected",
                                  [player_id |-> player_id, board_seed |-> seed,
                                   total_players |-> Len(ps)], sid)
            IN  /\ (~draw => drawn = 1)
                /\ board_seed' = seed
                /\ players' = ps
                /\ pc_seed' = [pc_seed EXCEPT ![sid] = seed]
                /\ game_started' = IF Len(ps) = 2 THEN TRUE ELSE game_started
                /\ emits' = IF Len(ps) = 2
                            THEN <<connected>> \o GameStart(ps, seed)
                            ELSE <<connected>>
                /\ fresh' = IF Len(ps) = 2 THEN {} ELSE fresh
                /\ last' = Ran("connect", sid, draw, "none", FALSE, None)
                /\ UNCHANGED <<game_finished, rejected>>
    /\ UNCHANGED cvars

\* variant: reports are processed after the match is decided
IgnoresReport_never(finished) == FALSE
\* "if game_state['game_finished']: return"
IgnoresReport(finished) == finished

\* handle_player_finished as a function of the slots and game_finished: the slots and
\* the flag it leaves, what it emits, the exception that escapes it
player_finished(ps0, finished, sid, game_time) ==
    IF IgnoresReport(finished)
    THEN [players |-> ps0, game_finished |-> finished, emits |-> <<>>, raised |-> "none"]
    ELSE LET ps == RecordTime(ps0, sid, game_time)
             fin == FinishedPlayers(ps)
             w == Winner(fin)
         IN  IF AllFinished(fin)
             THEN [players |-> ps, game_finished |-> TRUE,
                   emits |-> IF w.raised = "none"
                             THEN Broadcast(ps, "game_over",
                                            [winner |-> w.winner, times |-> Times(ps)])
                             ELSE <<>>,
                   raised |-> w.raised]
             ELSE [players |-> ps, game_finished |-> finished, emits |-> <<>>,
                   raised |-> "none"]

\* handle_player_finished(sid, data), data.get('game_time') = game_time
handle_player_finished(sid, game_time) ==
    /\ sid \in PlayerSids(players)
    /\ \E r \in {player_finished(players, game_finished, sid, game_time)} :
          /\ players' = r.players
          /\ game_finished' = r.game_finished
          /\ emits' = r.emits
          /\ last' = Ran("player_finished", sid, FALSE, r.raised,
                         ~IgnoresReport(game_finished)
                           /\ players[SlotOf(players, sid)].finished_time /= None,
                         game_time)
    /\ fresh' = IF game_started /\ ~IgnoresReport(game_finished)
                THEN fresh \cup {sid}
                ELSE fresh
    /\ UNCHANGED <<board_seed, game_started, rejected, pc_seed, cvars>>

\* handle_disconnect(sid), for a participant or for a connection handle_connect refused
handle_disconnect(sid) ==
    /\ sid \in PlayerSids(players) \cup rejected
    /\ LET ps == SelectSeq(players, LAMBDA p : p.sid /= sid)
           r == reset_game(board_seed)
       IN  /\ players' = ps
           /\ IF Len(ps) < 2
              THEN /\ board_seed' = r.board_seed
                   /\ game_started' = r.game_started
                   /\ game_finished' = r.game_finished
                   /\ emits' = Broadcast(ps, "game_over", [winner |-> None, times |-> EmptyDict])
                   /\ fresh' = {}
              ELSE /\ emits' = <<>>
                   /\ fresh' = fresh \ {sid}
                   /\ UNCHANGED <<board_seed, game_started, game_finished>>
    /\ rejected' = rejected \ {sid}
    /\ pc_seed' = [pc_seed EXCEPT ![sid] = NoSeed]
    /\ last' = Ran("disconnect", sid, FALSE, "none", FALSE, None)
    /\ UNCHANGED cvars

ServerInit ==
    /\ players = <<>>
    /\ board_seed = NoSeed
    /\ game_started = FALSE
    /\ game_finished = FALSE
    /\ rejected = {}
    /\ emits = <<>>
    /\ last = Ran("init", 0, FALSE, "none", FALSE, None)
    /\ pc_seed = [s \in Sids |-> NoSeed]
    /\ fresh = {}

\* ------------------------------------------------------------------ client board
\* the grid, SIZE_X x SIZE_Y (10 x 10 in the source), scaled down
SIZE_X == 3
SIZE_Y == 2

STATE_DEFAULT == 0
STATE_CLICKED == 1
STATE_FLAGGED == 2

Tiles == (0..(SIZE_X - 1)) \X (0..(SIZE_Y - 1))
NoTile == <<-1, -1>>

\* the elapsed seconds datetime.now() - self.start_time can show
Elapsed == {45, 86405}

\* str(delta).split('.')[0]
StrDelta(secs) ==
    CASE secs = 45 -> "0:00:45"
      [] secs = 86405 -> "1 day, 0:00:05"

\* a sample stream: per draw, whether the sample is below 0.1
Samples == [1..(SIZE_X * SIZE_Y) -> BOOLEAN]
NoMineStream == [k \in 1..(SIZE_X * SIZE_Y) |-> FALSE]
\* the seed the matches of SpecClient are played with; its stream is arbitrary
MatchSeeds == {1}
Streams == {f \in [Seeds -> Samples] : \A s \in Seeds \ MatchSeeds : f[s] = NoMineStream}

\* getNeighbors(x, y): the eight offsets in the source's order, those on the grid
NeighborsAt(t) ==
    LET coords == << <<t[1] - 1, t[2] - 1>>, <<t[1] - 1, t[2]>>, <<t[1] - 1, t[2] + 1>>,
                     <<t[1], t[2] - 1>>, <<t[1], t[2] + 1>>,
                     <<t[1] + 1, t[2] - 1>>, <<t[1] + 1, t[2]>>, <<t[1] + 1, t[2] + 1>> >>
    IN  SelectSeq(coords, LAMBDA n : n \in Tiles)

getNeighbors == [t \in Tiles |-> NeighborsAt(t)]

\* setup(): the draw that decides tile (x, y), x the outer loop and y the inner
DrawIndex(t) == t[1] * SIZE_Y + t[2] + 1

\* variant: seeding leaves the generator where it was
random_seed_noop(g, a) == g
\* random.seed(a): the generator restarts the stream of a, whatever its state g was
random_seed(g, a) == [seed |-> a, pos |-> 0]

\* the generator g after n draws
Drawn(g, n) == [g EXCEPT !.pos = g.pos + n]

\* "random.uniform(0.0, 1.0) < 0.1" for the k-th draw from generator g
Sample(g, k) == stream[g.seed][((g.pos + k - 1) % (SIZE_X * SIZE_Y)) + 1]

\* setup(): mine placement, the draws taken from generator g
PlaceMines(g) == [t \in Tiles |-> Sample(g, DrawIndex(t))]

\* setup(): "Calculate nearby mines"
NearbyMines(mine) ==
    [t \in Tiles |-> Cardinality({i \in DOMAIN getNeighbors[t] : mine[getNeighbors[t][i]]})]

\* clearTile(tile_id) on the pair (tile states, clickedCount)
clearTile(st, t) ==
    IF st.state[t] = STATE_CLICKED \/ st.state[t] = STATE_FLAGGED
    THEN st
    ELSE [state |-> [st.state EXCEPT ![t] = STATE_CLICKED], clickedCount |-> st.clickedCount + 1]

\* variant: the neighbours are cleared and the fill goes no further
RECURSIVE ClearNeighborsOnly(_, _, _)
ClearNeighborsOnly(st, nbrs, i) ==
    IF i > Len(nbrs) THEN st
    ELSE ClearNeighborsOnly(clearTile(st, nbrs[i]), nbrs, i + 1)

clearSurroundingTiles_one_ring(st, t) == ClearNeighborsOnly(st, getNeighbors[t], 1)

\* clearSurroundingTiles(tile_id): the loop over the neighbours from the i-th on
RECURSIVE clearSurroundingTiles(_, _), ClearNeighbors(_, _, _)
ClearNeighbors(st, nbrs, i) ==
    IF i > Len(nbrs) THEN st
    ELSE IF st.state[nbrs[i]] = STATE_DEFAULT
         THEN LET st1 == clearTile(st, nbrs[i])
                  st2 == IF tmines[nbrs[i]] = 0
                         THEN clearSurroundingTiles(st1, nbrs[i])
                         ELSE st1
              IN  ClearNeighbors(st2, nbrs, i + 1)
         ELSE ClearNeighbors(st, nbrs, i + 1)

clearSurroundingTiles(st, t) == ClearNeighbors(st, getNeighbors[t], 1)

\* variant: the clicked tile is counted whether or not the fill or an earlier click
\* has revealed it already
Reveal_counts_again(st0, t) ==
    LET st1 == IF tmines[t] = 0 THEN clearSurroundingTiles(st0, t) ELSE st0
    IN  [state |-> [st1.state EXCEPT ![t] = STATE_CLICKED],
         clickedCount |-> st1.clickedCount + 1]
\* onClick on a tile that is no mine, game active: the flood fill from a tile without
\* adjacent mines, then "if tile["state"] != STATE_CLICKED"
Reveal(st0, t) ==
    LET st1 == IF tmines[t] = 0 THEN clearSurroundingTiles(st0, t) ELSE st0
    IN  IF st1.state[t] /= STATE_CLICKED
        THEN [state |-> [st1.state EXCEPT ![t] = STATE_CLICKED],
              clickedCount |-> st1.clickedCount + 1]
        ELSE st1

\* onClick: "if self.clickedCount == (SIZE_X * SIZE_Y) - self.mines"
BoardCleared(count) == count = (SIZE_X * SIZE_Y) - mines

CRan(ev, t) == [ev |-> ev, tile |-> t]

\* ------------------------------------------------------------------ client handlers
\* on_game_start(data) -> start_game(): restart() -> setup()
on_game_start(seed) ==
    /\ ~quit
    /\ c_seed' = seed
    /\ c_started' = TRUE
    /\ flagCount' = 0
    /\ correctFlagCount' = 0
    /\ clickedCount' = 0
    \* the default argument random.randint(...) of data.get is evaluated, then restart()
    \* and setup() each call random.seed(self.board_seed)
    /\ LET g == random_seed(random_seed(Drawn(rng, 1), seed), seed)
       IN  /\ isMine' = PlaceMines(g)
           /\ mines' = Cardinality({t \in Tiles : PlaceMines(g)[t]})
           /\ tmines' = NearbyMines(PlaceMines(g))
           /\ rng' = Drawn(g, SIZE_X * SIZE_Y)
    /\ state' = [t \in Tiles |-> STATE_DEFAULT]
    /\ c_emits' = <<>>
    /\ c_last' = CRan("game_start", NoTile)
    /\ reported' = FALSE
    /\ UNCHANGED <<stream, is_game_completed, quit, stack, fill, svars>>

\* onClick: the player_finished emit, with the game_time the clock gives
NotifyServer(secs) == <<[event |-> "player_finished", game_time |-> StrDelta(secs)]>>

\* onClick(tile): the left click on a tile whose click binding is in place
onClick(t) ==
    /\ ~quit
    /\ c_started
    /\ state[t] /= STATE_FLAGGED
    /\ c_last' = CRan("click", t)
    /\ IF is_game_completed \/ isMine[t]
       THEN /\ c_emits' = <<>>
            /\ UNCHANGED <<state, clickedCount, reported>>
       ELSE \E st2 \in {Reveal([state |-> state, clickedCount |-> clickedCount], t)} :
                /\ state' = st2.state
                /\ clickedCount' = st2.clickedCount
                /\ IF BoardCleared(st2.clickedCount)
                   THEN /\ \E secs \in Elapsed : c_emits' = NotifyServer(secs)
                        /\ reported' = TRUE
                   ELSE /\ c_emits' = <<>>
                        /\ UNCHANGED reported
    /\ UNCHANGED <<stream, rng, stack, fill, c_seed, c_started, is_game_completed, isMine, tmines,
                   flagCount, correctFlagCount, mines, quit, svars>>

\* variant: a right click flags a Revealed tile too
IsHidden_or_clicked(s) == s /= STATE_FLAGGED
\* onRightClick: 'if tile["state"] == STATE_DEFAULT'
IsHidden(s) == s = STATE_DEFAULT

\* variant: every flag counts as a correct one
CorrectFlags_any(count, mine, d) == count + d
\* onRightClick: 'if tile["isMine"] == True: self.correctFlagCount += 1' (or -= 1)
CorrectFlags(count, mine, d) == IF mine THEN count + d ELSE count

\* onRightClick(tile)
onRightClick(t) ==
    /\ ~quit
    /\ c_started
    /\ c_last' = CRan("rightclick", t)
    /\ c_emits' = <<>>
    /\ IF is_game_completed
       THEN UNCHANGED <<state, flagCount, correctFlagCount>>
       ELSE IF IsHidden(state[t])
       THEN /\ state' = [state EXCEPT ![t] = STATE_FLAGGED]
            /\ correctFlagCount' = CorrectFlags(correctFlagCount, isMine[t], 1)
            /\ flagCount' = flagCount + 1
       ELSE IF state[t] = STATE_FLAGGED
       THEN /\ state' = [state EXCEPT ![t] = STATE_DEFAULT]
            /\ correctFlagCount' = CorrectFlags(correctFlagCount, isMine[t], -1)
            /\ flagCount' = flagCount - 1
       ELSE UNCHANGED <<state, flagCount, correctFlagCount>>
    /\ UNCHANGED <<stream, rng, stack, fill, c_seed, c_started, is_game_completed, isMine, tmines, clickedCount,
                   mines, quit, reported, svars>>

\* on_game_over(data) -> show_game_over(): the server sends it after a game_start
on_game_over ==
    /\ ~quit
    /\ c_started
    /\ quit' = TRUE
    /\ c_emits' = <<>>
    /\ c_last' = CRan("game_over", NoTile)
    /\ UNCHANGED <<stream, rng, stack, fill, c_seed, c_started, is_game_completed, isMine, tmines, state,
                   clickedCount, flagCount, correctFlagCount, mines, reported, svars>>

\* on_game_completed(data) -> show_game_completion(): without a board the loop over
\* self.tiles raises after is_game_completed is set, and the handler ends there
on_game_completed ==
    /\ ~quit
    /\ is_game_completed' = TRUE
    /\ quit' = c_started
    /\ c_emits' = <<>>
    /\ c_last' = CRan("game_completed", NoTile)
    /\ UNCHANGED <<stream, rng, stack, fill, c_seed, c_started, isMine, tmines, state,
                   clickedCount, flagCount, correctFlagCount, mines, reported, svars>>

\* ------------------------------------------------------------------ the fill, call by call
\* the depth at which Python raises RecursionError (1000 by default), scaled to the grid
RecursionLimit == SIZE_X * SIZE_Y + 2

\* variant: the fill enters Revealed neighbours too
Enters_revealed(s) == s /= STATE_FLAGGED
\* clearSurroundingTiles: "if neighbor_tile['state'] == STATE_DEFAULT"
Enters(s) == s = STATE_DEFAULT

\* onClick(tile) up to its call of clearSurroundingTiles, tile without adjacent mines
beginFill(t) ==
    /\ fill = "idle"
    /\ ~quit /\ c_started /\ ~is_game_completed
    /\ state[t] /= STATE_FLAGGED
    /\ ~isMine[t]
    /\ tmines[t] = 0
    /\ stack' = <<[tile |-> t, i |-> 1]>>
    /\ fill' = "running"
    /\ c_last' = CRan("click", t)
    /\ c_emits' = <<>>
    /\ UNCHANGED <<stream, rng, c_seed, c_started, is_game_completed, isMine, tmines, state,
                   clickedCount, flagCount, correctFlagCount, mines, quit, reported, svars>>

\* one step of the innermost call of clearSurroundingTiles: the next neighbour of its
\* loop, or its return; the return of the outermost call runs onClick to its end
fillStep ==
    /\ fill = "running"
    /\ LET top == stack[Len(stack)]
           nbrs == getNeighbors[top.tile]
           n == nbrs[top.i]
           st == [state |-> state, clickedCount |-> clickedCount]
       IN  IF top.i > Len(nbrs)
           THEN IF Len(stack) > 1
                THEN /\ stack' = SubSeq(stack, 1, Len(stack) - 1)
                     /\ UNCHANGED <<fill, state, clickedCount, c_emits, reported>>
                ELSE \E st2 \in {IF state[top.tile] /= STATE_CLICKED
                                 THEN [state |-> [state EXCEPT ![top.tile] = STATE_CLICKED],
                                       clickedCount |-> clickedCount + 1]
                                 ELSE st} :
                         /\ stack' = <<>>
                         /\ fill' = "done"
                         /\ state' = st2.state
                         /\ clickedCount' = st2.clickedCount
                         /\ IF BoardCleared(st2.clickedCount)
                            THEN /\ \E secs \in Elapsed : c_emits' = NotifyServer(secs)
                                 /\ reported' = TRUE
                            ELSE UNCHANGED <<c_emits, reported>>
           ELSE /\ UNCHANGED <<c_emits, reported>>
                /\ IF Enters(state[n])
                   THEN /\ state' = clearTile(st, n).state
                        /\ clickedCount' = clearTile(st, n).clickedCount
                        /\ IF tmines[n] = 0
                           THEN IF Len(stack) < RecursionLimit
                                THEN /\ stack' = Append([stack EXCEPT ![Len(stack)].i = top.i + 1],
                                                        [tile |-> n, i |-> 1])
                                     /\ UNCHANGED fill
                                ELSE /\ stack' = <<>>
                                     /\ fill' = "RecursionError"
                           ELSE /\ stack' = [stack EXCEPT ![Len(stack)].i = top.i + 1]
                                /\ UNCHANGED fill
                   ELSE /\ stack' = [stack EXCEPT ![Len(stack)].i = top.i + 1]
                        /\ UNCHANGED <<fill, state, clickedCount>>
    /\ UNCHANGED <<stream, rng, c_seed, c_started, is_game_completed, isMine, tmines,
                   flagCount, correctFlagCount, mines, quit, c_last, svars>>

\* the client before any game_start: no board has been built
NoBoard ==
    /\ c_seed = NoSeed
    /\ c_started = FALSE
    /\ is_game_completed = FALSE
    /\ isMine = [t \in Tiles |-> FALSE]
    /\ tmines = [t \in Tiles |-> 0]
    /\ state = [t \in Tiles |-> STATE_DEFAULT]
    /\ clickedCount = 0
    /\ flagCount = 0
    /\ correctFlagCount = 0
    /\ mines = 0
    /\ quit = FALSE
    /\ c_emits = <<>>
    /\ c_last = CRan("init", NoTile)
    /\ reported = FALSE
    /\ stack = <<>>
    /\ fill = "idle"

\* ------------------------------------------------------------------ specifications
\* the generator as the random module seeds it at import: somewhere unknown
Generators == {[seed |-> s, pos |-> 0] : s \in Seeds}

Init ==
    /\ ServerInit
    /\ stream = [s \in Seeds |-> NoMineStream]
    /\ rng = [seed |-> 1, pos |-> 0]
    /\ NoBoard

Next ==
    \/ \E sid \in Sids : handle_connect(sid)
    \/ \E sid \in Sids : \E game_time \in GameTimes : handle_player_finished(sid, game_time)
    \/ \E sid \in Sids : handle_disconnect(sid)

Spec == Init /\ [][Next]_vars

InitClient ==
    /\ ServerInit
    /\ stream \in Streams
    /\ rng \in Generators
    /\ NoBoard

NextClient ==
    \/ \E seed \in MatchSeeds : on_game_start(seed)
    \/ \E t \in Tiles : onClick(t)
    \/ \E t \in Tiles : onRightClick(t)
    \/ on_game_over
    \/ on_game_completed

SpecClient == InitClient /\ [][NextClient]_vars

\* board generation alone: any stream for every seed, game_start with any seed
InitBoard ==
    /\ ServerInit
    /\ stream \in [Seeds -> Samples]
    /\ rng \in Generators
    /\ NoBoard

NextBoard == \E seed \in Seeds : on_game_start(seed)

SpecBoard == InitBoard /\ [][NextBoard]_vars

\* one left click run call by call, on any board in any state play can bring it to:
\* every set of tiles that are no mines Revealed, every set of the others Flagged
InitFill ==
    /\ ServerInit
    /\ stream \in Streams
    /\ \E seed \in MatchSeeds : \E g \in Generators :
          /\ c_seed = seed
          /\ rng = Drawn(random_seed(g, seed), SIZE_X * SIZE_Y)
          /\ isMine = PlaceMines(random_seed(g, seed))
    /\ tmines = NearbyMines(isMine)
    /\ mines = Cardinality({t \in Tiles : isMine[t]})
    /\ state \in [Tiles -> {STATE_DEFAULT, STATE_CLICKED, STATE_FLAGGED}]
    /\ \A t \in Tiles : isMine[t] => state[t] /= STATE_CLICKED
    /\ clickedCount = Cardinality({t \in Tiles : state[t] = STATE_CLICKED})
    /\ flagCount = Cardinality({t \in Tiles : state[t] = STATE_FLAGGED})
    /\ correctFlagCount = Cardinality({t \in Tiles : state[t] = STATE_FLAGGED /\ isMine[t]})
    /\ c_started = TRUE
    /\ is_game_completed = FALSE
    /\ quit = FALSE
    /\ c_emits = <<>>
    /\ c_last = CRan("game_start", NoTile)
    /\ reported = (BoardCleared(clickedCount) /\ clickedCount > 0)
    /\ stack = <<>>
    /\ fill = "idle"

NextFill ==
    \/ \E t \in Tiles : beginFill(t)
    \/ fillStep

\* Python runs the call to its end: a fill that can step does step
SpecFill == InitFill /\ [][NextFill]_vars /\ WF_vars(fillStep)

\* ------------------------------------------------------------------ session vocabulary
\* the phase of the session: Finished, InProgress, Waiting (a seed is held), Empty
Phase ==
    IF game_finished THEN "Finished"
    ELSE IF game_started THEN "InProgress"
    ELSE IF board_seed /= NoSeed THEN "Waiting"
    ELSE "Empty"

\* the step is handle_connect for a connection that gets a slot
AcceptedConnect == last'.ev = "connect" /\ last'.sid \in PlayerSids(players')

\* the step is the disconnect of a participant
ParticipantLeaves == last'.ev = "disconnect" /\ last'.sid \in PlayerSids(players)

\* the step is a player_finished report
Report == last'.ev = "player_finished"

WellFormed(v) == StrptimeRaises(v) = "ok"

SessionUnchanged == UNCHANGED <<players, board_seed, game_started, game_finished>>

\* emits' is one game_over with this payload to each slot of ps, in order
GameOverToAll(ps, winner, times) ==
    /\ Len(emits') = Len(ps)
    /\ \A i \in DOMAIN ps :
          /\ emits'[i].event = "game_over"
          /\ emits'[i].room = ps[i].sid
          /\ emits'[i].data.winner = winner
          /\ emits'[i].data.times = times

EmitsWinner(es) == \E i \in DOMAIN es : es[i].event = "game_over" /\ es[i].data.winner /= None

EmitsGameStart(es) == \E i \in DOMAIN es : es[i].event = "game_start"

\* ------------------------------------------------------------------ claims, server
\* C1: with two slots occupied, a connect from a third connection is answered with
\* connection_error "Game is full" to that connection only and changes nothing of the
\* session (slots, ids, finish times, seed, started, finished); processing the refused
\* connection's disconnect afterwards changes nothing either and emits nothing.
C1_FullSessionRejects ==
    [][ /\ (Len(players) = 2 /\ last'.ev = "connect")
            => /\ emits' = <<Emit("connection_error", [message |-> "Game is full"], last'.sid)>>
               /\ last'.sid \notin PlayerSids(players')
               /\ SessionUnchanged
        /\ (Len(players) = 2 /\ last'.ev = "disconnect" /\ last'.sid \in rejected)
            => /\ emits' = <<>>
               /\ SessionUnchanged ]_vars

\* C1 witness: a refused connection's disconnect was processed while both slots stay held
C1_Witness ==
    /\ last.ev = "disconnect"
    /\ Len(players) = 2
    /\ game_started
    /\ players[1].finished_time /= None

\* C2 (as stated): at the report after which both slots hold a well-formed game_time the
\* session becomes Finished and game_over goes to both connections, winner the id of the
\* slot with the smaller duration, times with two entries, each player's id mapped to
\* the string that player last reported.
C2_WellFormedArbitration ==
    [][ ( /\ Report
          /\ ~game_finished
          /\ Len(players') = 2
          /\ \A i \in 1..2 : WellFormed(players'[i].finished_time) )
        => /\ game_finished'
           /\ Len(emits') = 2
           /\ \A i \in 1..2 :
                 /\ emits'[i].event = "game_over"
                 /\ emits'[i].room = players'[i].sid
                 /\ Cardinality(DOMAIN emits'[i].data.times) = 2
                 /\ \A k \in 1..2 :
                       /\ players'[k].id \in DOMAIN emits'[i].data.times
                       /\ emits'[i].data.times[players'[k].id] = players'[k].finished_time
                 /\ \A k \in 1..2 :
                       (\A j \in (1..2) \ {k} : Strptime(players'[k].finished_time)
                                                  < Strptime(players'[j].finished_time))
                       => emits'[i].data.winner = players'[k].id ]_vars

\* C3: when a participant disconnects while the match is InProgress, the remaining
\* connection receives game_over{winner: null, times: {}} and the session is Empty with
\* the seed cleared; from then on the seed stays cleared until a connect is accepted, and
\* that connect draws a seed anew and hands it out.
C3_AbandonedMatch ==
    [][ /\ (Phase = "InProgress" /\ Len(players) = 2 /\ ParticipantLeaves)
            => /\ Len(players') = 1
               /\ GameOverToAll(players', None, EmptyDict)
               /\ Phase' = "Empty"
               /\ board_seed' = NoSeed
        /\ (Len(players) = 1 /\ board_seed = NoSeed)
            => IF AcceptedConnect
               THEN /\ last'.drew
                    /\ board_seed' \in Seeds
                    /\ emits'[1].event = "player_connected"
                    /\ emits'[1].room = last'.sid
                    /\ emits'[1].data.board_seed = board_seed'
               ELSE board_seed' = NoSeed ]_vars

\* C3 witness: a seed was drawn by the connect that joined the connection left over from
\* an abandoned match whose seed was the other one
C3_Witness ==
    /\ last.ev = "connect"
    /\ last.drew
    /\ Len(players) = 2
    /\ pc_seed[players[1].sid] /= NoSeed
    /\ pc_seed[players[1].sid] /= board_seed

\* C4 (as stated): at the report after which both slots have reported and at least one
\* reported game_time does not parse, the match concludes: Finished, winner the id of the
\* first-connected slot, game_over to both connections, no error raised.
C4_MalformedFallback ==
    [][ ( /\ Report
          /\ ~game_finished
          /\ Len(players') = 2
          /\ \A i \in 1..2 : players'[i].finished_time /= None
          /\ \E i \in 1..2 : ~WellFormed(players'[i].finished_time) )
        => /\ game_finished'
           /\ last'.raised = "none"
           /\ Len(emits') = 2
           /\ \A i \in 1..2 :
                 /\ emits'[i].event = "game_over"
                 /\ emits'[i].room = players'[i].sid
                 /\ emits'[i].data.winner = players'[1].id ]_vars

\* C5: a further player_finished from a connection that has already reported, while the
\* other participant has not reported, replaces that slot's time with the new value and
\* nothing else, raises no error, emits no game_over and leaves the session not Finished;
\* and a session in which a participant has not reported becomes Finished only by the
\* step that processes that participant's report.
C5_DuplicateReport ==
    [][ /\ \A i \in 1..2 :
            ( /\ Report
              /\ ~game_finished
              /\ Len(players) = 2
              /\ last'.sid = players[i].sid
              /\ players[i].finished_time /= None
              /\ players[3 - i].finished_time = None )
            => /\ players' = [players EXCEPT ![i].finished_time = last'.game_time]
               /\ last'.raised = "none"
               /\ last'.again
               /\ emits' = <<>>
               /\ ~game_finished'
               /\ UNCHANGED <<board_seed, game_started>>
        /\ \A i \in 1..2 :
            ( /\ Len(players) = 2
              /\ ~game_finished
              /\ players[i].finished_time = None
              /\ game_finished' )
            => (Report /\ last'.sid = players[i].sid) ]_vars

\* C5 witness: a report replaced an earlier, different one of the same connection and the
\* session is still not Finished, the other participant not having reported
C5_Witness ==
    /\ last.ev = "player_finished"
    /\ last.again
    /\ Len(players) = 2
    /\ ~game_finished
    /\ \E i \in 1..2 :
          /\ players[i].sid = last.sid
          /\ last.game_time = "00:01:10"
          /\ players[i].finished_time = "00:01:10"
          /\ players[3 - i].finished_time = None

\* C6: once the session is Finished a player_finished is ignored entirely (slots, seed,
\* started and finished unchanged, nothing emitted, nothing raised), and a game_over that
\* names a winner is emitted only by the step that makes the session Finished, hence at
\* most once per match.
C6_FinishedIgnoresReports ==
    [][ /\ (game_finished /\ Report)
            => /\ SessionUnchanged
               /\ emits' = <<>>
               /\ last'.raised = "none"
        /\ EmitsWinner(emits') => (~game_finished /\ game_finished' /\ Report)
        /\ (game_finished /\ game_finished') => ~EmitsWinner(emits') ]_vars

\* C6 witness: a report was ignored after the match was decided with a game_over
C6_Witness ==
    /\ game_finished
    /\ last.ev = "player_finished"
    /\ last.raised = "none"
    /\ emits = <<>>
    /\ \A i \in DOMAIN players : WellFormed(players[i].finished_time)

\* C7 (as stated): the connect accepted as second participant is labelled "Player B",
\* gets player_connected with total_players = 2, then game_start goes to both
\* connections with one seed, the seed each of the two got in its own player_connected.
C7_SecondConnectStarts ==
    [][ (AcceptedConnect /\ Len(players') = 2)
        => /\ players'[2].sid = last'.sid
           /\ players'[2].id = "Player B"
           /\ Len(emits') = 3
           /\ emits'[1] = Emit("player_connected",
                               [player_id |-> "Player B", board_seed |-> board_seed',
                                total_players |-> 2], last'.sid)
           /\ \A i \in 1..2 :
                 /\ emits'[i + 1] = Emit("game_start", [board_seed |-> board_seed'],
                                         players'[i].sid)
                 /\ pc_seed'[players'[i].sid] = board_seed' ]_vars

\* C7 (amended): as C7, the seed of game_start being the seed the new connection got in
\* its player_connected, and also the seed the first participant got in its
\* player_connected when the session still held a seed as the connect arrived (no
\* disconnect has reset the session since the first participant connected).
C7_SecondConnectStartsAmended ==
    [][ (AcceptedConnect /\ Len(players') = 2)
        => /\ players'[2].sid = last'.sid
           /\ players'[2].id = "Player B"
           /\ game_started'
           /\ board_seed' \in Seeds
           /\ Len(emits') = 3
           /\ emits'[1] = Emit("player_connected",
                               [player_id |-> "Player B", board_seed |-> board_seed',
                                total_players |-> 2], last'.sid)
           /\ \A i \in 1..2 :
                 emits'[i + 1] = Emit("game_start", [board_seed |-> board_seed'],
                                      players'[i].sid)
           /\ pc_seed'[players'[2].sid] = board_seed'
           /\ (board_seed /= NoSeed => pc_seed'[players'[1].sid] = board_seed') ]_vars

\* C7 witness: the second participant was accepted into a session that held a seed, and
\* both were given that seed
C7_Witness ==
    /\ last.ev = "connect"
    /\ ~last.drew
    /\ Len(players) = 2
    /\ Len(emits) = 3
    /\ emits[3].event = "game_start"
    /\ pc_seed[players[1].sid] = board_seed
    /\ pc_seed[players[2].sid] = board_seed

\* C8 (as stated): a connect accepted while the phase is Empty (initially or after a
\* disconnect-triggered reset) makes the session Waiting: a seed is allocated, the
\* connection is "Player A" and gets player_connected with total_players = 1, and no
\* game_start is emitted until a further connection is accepted.
C8_FirstConnectWaits ==
    [][ /\ (Phase = "Empty" /\ AcceptedConnect)
            => /\ Phase' = "Waiting"
               /\ last'.drew
               /\ board_seed' \in Seeds
               /\ emits' = <<Emit("player_connected",
                                  [player_id |-> "Player A", board_seed |-> board_seed',
                                   total_players |-> 1], last'.sid)>>
        /\ (Phase = "Waiting" /\ ~AcceptedConnect) => ~EmitsGameStart(emits') ]_vars

\* C8 (amended): a connect accepted while no slot is occupied (initially or after
\* disconnects have emptied the session) makes the session Waiting: a seed is allocated,
\* the connection is "Player A" and gets player_connected with total_players = 1, and no
\* game_start is emitted until a further connection is accepted.
C8_FirstConnectWaitsAmended ==
    [][ /\ (Len(players) = 0 /\ AcceptedConnect)
            => /\ Phase = "Empty"
               /\ Phase' = "Waiting"
               /\ last'.drew
               /\ board_seed' \in Seeds
               /\ players' = <<[sid |-> last'.sid, id |-> "Player A", finished_time |-> None]>>
               /\ emits' = <<Emit("player_connected",
                                  [player_id |-> "Player A", board_seed |-> board_seed',
                                   total_players |-> 1], last'.sid)>>
        /\ (Phase = "Waiting" /\ ~AcceptedConnect) => ~EmitsGameStart(emits') ]_vars

\* C8 witness: the first connection of a session is waiting as "Player A"
C8_Witness ==
    /\ last.ev = "connect"
    /\ last.drew
    /\ Phase = "Waiting"
    /\ Len(players) = 1
    /\ players[1].id = "Player A"
    /\ Len(emits) = 1

\* ------------------------------------------------------------------ board vocabulary
Adjacent(u, v) == u /= v /\ u[1] - v[1] \in {-1, 0, 1} /\ u[2] - v[2] \in {-1, 0, 1}

\* the tiles of `among` connected to the set S through tiles of `among`
RECURSIVE Connected(_, _)
Connected(S, among) ==
    LET more == {u \in among \ S : \E v \in S : Adjacent(u, v)}
    IN  IF more = {} THEN S ELSE Connected(S \cup more, among)

\* the connected region of tiles without adjacent mines around t
ZeroRegion(t) == Connected({t}, {u \in Tiles : tmines[u] = 0})

\* the part of that region the fill can walk: through tiles that are still Hidden
HiddenZeroRegion(t) ==
    Connected({t}, {u \in Tiles : tmines[u] = 0 /\ state[u] = STATE_DEFAULT})

\* the tiles outside R that touch R
Border(R) == {u \in Tiles \ R : \E v \in R : Adjacent(u, v)}

\* the game accepts input
Active == c_started /\ ~is_game_completed /\ ~quit

\* the step is a left click on t that reveals it: game active, t Hidden and no mine
Reveals(t) ==
    /\ c_last'.ev = "click"
    /\ c_last'.tile = t
    /\ Active
    /\ ~isMine[t]
    /\ state[t] = STATE_DEFAULT

\* ------------------------------------------------------------------ claims, client
\* C9 (as stated): in one match the client sends player_finished exactly once, at the
\* reveal that completes the board; after that report a further left click, on any tile,
\* changes nothing and sends no player_finished.
C9_ReportsOnce ==
    [][ /\ (c_emits' /= <<>>)
            => /\ c_last'.ev = "click"
               /\ ~BoardCleared(clickedCount)
               /\ BoardCleared(clickedCount')
        /\ (reported /\ c_last'.ev = "click")
            => /\ c_emits' = <<>>
               /\ UNCHANGED <<state, clickedCount>> ]_vars

\* C10 (as stated): revealing a tile without adjacent mines leaves Revealed the tile, its
\* whole connected region of tiles without adjacent mines and every tile bordering that
\* region, and leaves no mine Revealed.
C10_FloodFill ==
    [][ \A t \in Tiles :
          (Reveals(t) /\ tmines[t] = 0)
          => /\ \A u \in ZeroRegion(t) \cup Border(ZeroRegion(t)) : state'[u] = STATE_CLICKED
             /\ \A u \in Tiles : isMine[u] => state'[u] /= STATE_CLICKED ]_vars

\* C10 (amended): revealing a Hidden tile without adjacent mines leaves Revealed the tile,
\* every tile reachable from it through Hidden tiles without adjacent mines, and every
\* tile bordering those that was Hidden; it changes no other tile (a Flagged tile stays
\* Flagged, and the fill does not pass through a Flagged or an already Revealed tile) and
\* leaves no mine Revealed. When no tile of the connected region or of its border is
\* Flagged and no tile of the region but t is Revealed yet, that is the whole region and
\* its whole border.
C10_FloodFillAmended ==
    [][ \A t \in Tiles :
          (Reveals(t) /\ tmines[t] = 0)
          => LET walked == HiddenZeroRegion(t)
                 region == ZeroRegion(t)
             IN  /\ \A u \in Tiles :
                       state'[u] = IF /\ u \in walked \cup Border(walked)
                                      /\ state[u] = STATE_DEFAULT
                                   THEN STATE_CLICKED
                                   ELSE state[u]
                 /\ \A u \in Tiles : isMine[u] => state'[u] /= STATE_CLICKED
                 /\ ( /\ \A u \in region \cup Border(region) : state[u] /= STATE_FLAGGED
                      /\ \A u \in region : state[u] /= STATE_CLICKED )
                    => \A u \in region \cup Border(region) : state'[u] = STATE_CLICKED ]_vars

\* C10 witness: a click on a tile without adjacent mines has revealed a region of several
\* such tiles and numbered tiles on its border, on a board with a mine and with a
\* Flagged tile left as it was
C10_Witness ==
    /\ c_last.ev = "click"
    /\ tmines[c_last.tile] = 0
    /\ state[c_last.tile] = STATE_CLICKED
    /\ mines >= 1
    /\ \E u \in Tiles : u /= c_last.tile /\ tmines[u] = 0 /\ state[u] = STATE_CLICKED
    /\ \E u \in Tiles : tmines[u] > 0 /\ ~isMine[u] /\ state[u] = STATE_CLICKED
    /\ \E u \in Tiles : state[u] = STATE_FLAGGED /\ ~isMine[u]

\* C11: on a board, after any sequence of left and right clicks, clickedCount is the
\* number of Revealed tiles (a tile is counted once, also when a fill or a click comes to
\* it again), and clickedCount equals width*height minus the number of mine tiles exactly
\* when every tile that is no mine is Revealed.
C11_RevealedCount ==
    c_started =>
        /\ clickedCount = Cardinality({t \in Tiles : state[t] = STATE_CLICKED})
        /\ (clickedCount = SIZE_X * SIZE_Y - Cardinality({t \in Tiles : isMine[t]}))
              <=> (\A t \in Tiles : ~isMine[t] => state[t] = STATE_CLICKED)
        /\ BoardCleared(clickedCount)
              <=> (\A t \in Tiles : ~isMine[t] => state[t] = STATE_CLICKED)

\* C11 witness: a board with a mine stands cleared after a click on a tile without
\* adjacent mines, a flag standing on the mine
C11_Witness ==
    /\ c_last.ev = "click"
    /\ mines >= 1
    /\ clickedCount = SIZE_X * SIZE_Y - mines
    /\ clickedCount = Cardinality({t \in Tiles : state[t] = STATE_CLICKED})
    /\ \E u \in Tiles : isMine[u] /\ state[u] = STATE_FLAGGED
    /\ tmines[c_last.tile] = 0

\* C12 (as stated): a left click changes no tile's state and no counter when the game is
\* not active, or the tile clicked is not Hidden (Revealed already, or Flagged), or the
\* tile is a mine.
C12_RevealNoOp ==
    [][ \A t \in Tiles :
          ( /\ c_last'.ev = "click"
            /\ c_last'.tile = t
            /\ (~Active \/ state[t] /= STATE_DEFAULT \/ isMine[t]) )
          => UNCHANGED <<state, clickedCount, flagCount, correctFlagCount>> ]_vars

\* C13: the board built at game_start is a function of the seed alone: one sample per
\* cell, drawn in x-outer, y-inner order from the stream of that seed restarted, the
\* adjacency counts following from the mines; the stream of a seed never changes, so any
\* two builds from one seed agree tile for tile, and a client that rebuilds with the
\* seed it holds gets the board it had.
C13_SeedDeterminism ==
    [][ c_last'.ev = "game_start"
        => /\ stream' = stream
           /\ \A x \in 0..(SIZE_X - 1) : \A y \in 0..(SIZE_Y - 1) :
                 isMine'[<<x, y>>] = stream[c_seed'][x * SIZE_Y + y + 1]
           /\ \A t \in Tiles :
                 tmines'[t] = Cardinality({u \in Tiles : Adjacent(u, t) /\ isMine'[u]})
           /\ mines' = Cardinality({u \in Tiles : isMine'[u]})
           /\ rng' = [seed |-> c_seed', pos |-> SIZE_X * SIZE_Y]
           /\ (c_started /\ c_seed = c_seed') => (isMine' = isMine /\ tmines' = tmines) ]_vars

\* C13 witness: a board with mines was built from seed 2, whose stream differs from the
\* stream of seed 1, the generator left at the end of the draws of that build
C13_Witness ==
    /\ c_last.ev = "game_start"
    /\ c_seed = 2
    /\ mines >= 2
    /\ stream[1] /= stream[2]
    /\ \E t \in Tiles : tmines[t] = 2
    /\ rng = [seed |-> 2, pos |-> SIZE_X * SIZE_Y]

\* C14: a right click on a Hidden tile makes it Flagged and on a Flagged tile makes it
\* Hidden, and changes nothing on a Revealed tile or when the game is not active; it never
\* changes clickedCount or the completion condition and sends nothing; after every step
\* flagCount is the number of Flagged tiles and correctFlagCount the number of Flagged
\* mine tiles.
C14_ToggleFlag ==
    [][ /\ \A t \in Tiles :
              (c_last'.ev = "rightclick" /\ c_last'.tile = t)
              => /\ state' = [state EXCEPT ![t] =
                                 IF Active /\ state[t] = STATE_DEFAULT THEN STATE_FLAGGED
                                 ELSE IF Active /\ state[t] = STATE_FLAGGED THEN STATE_DEFAULT
                                 ELSE state[t]]
                 /\ clickedCount' = clickedCount
                 /\ BoardCleared(clickedCount') <=> BoardCleared(clickedCount)
                 /\ mines' = mines
                 /\ c_emits' = <<>>
                 /\ (~Active => UNCHANGED <<flagCount, correctFlagCount>>)
        /\ flagCount' = Cardinality({u \in Tiles : state'[u] = STATE_FLAGGED})
        /\ correctFlagCount' =
              Cardinality({u \in Tiles : state'[u] = STATE_FLAGGED /\ isMine'[u]}) ]_vars

\* C14 witness: a right click has taken the flag off a tile while a mine and a tile that
\* is no mine stay Flagged and another tile is Revealed
C14_Witness ==
    /\ c_last.ev = "rightclick"
    /\ Active
    /\ state[c_last.tile] = STATE_DEFAULT
    /\ flagCount = 2
    /\ correctFlagCount = 1
    /\ clickedCount >= 1

\* the tiles a left click on t can come to: t alone when it has adjacent mines, else the
\* tiles without adjacent mines connected to t through tiles that are not Flagged, and
\* the tiles bordering them
Spread(t) ==
    IF tmines[t] = 0
    THEN LET walk == Connected({t}, {v \in Tiles : tmines[v] = 0 /\ state[v] /= STATE_FLAGGED})
         IN  walk \cup Border(walk)
    ELSE {t}

\* C17: within a match a tile only goes Hidden -> Revealed (by a left click, on it or
\* spreading to it), Hidden -> Flagged and Flagged -> Hidden (by a right click on it): a
\* Revealed tile stays Revealed, a Flagged tile is never Revealed by a click or a fill,
\* and a fill does not spread through a Flagged tile.
C17_TileTransitions ==
    [][ c_last'.ev /= "game_start"
        => \A u \in Tiles :
              /\ state[u] = STATE_CLICKED => state'[u] = STATE_CLICKED
              /\ state[u] = STATE_FLAGGED
                    => \/ state'[u] = STATE_FLAGGED
                       \/ /\ state'[u] = STATE_DEFAULT
                          /\ c_last'.ev = "rightclick"
                          /\ c_last'.tile = u
              /\ (state[u] = STATE_DEFAULT /\ state'[u] = STATE_FLAGGED)
                    => (c_last'.ev = "rightclick" /\ c_last'.tile = u)
              /\ (state[u] = STATE_DEFAULT /\ state'[u] = STATE_CLICKED)
                    => (c_last'.ev = "click" /\ u \in Spread(c_last'.tile)) ]_vars

\* C17 witness: a click on a tile without adjacent mines has revealed tiles, and a
\* Flagged tile without adjacent mines still stands with a Hidden one behind it
C17_Witness ==
    /\ c_last.ev = "click"
    /\ tmines[c_last.tile] = 0
    /\ clickedCount >= 2
    /\ \E u \in Tiles : \E v \in Tiles :
          /\ state[u] = STATE_FLAGGED /\ tmines[u] = 0
          /\ state[v] = STATE_DEFAULT /\ tmines[v] = 0 /\ ~isMine[v]
          /\ Adjacent(u, v)
          /\ ~Adjacent(v, c_last.tile)

\* C16: every left click that starts a flood fill runs to its end: whatever the board,
\* the states of its tiles and the tile clicked, the fill comes to have no call left in
\* progress; beyond the call for the tile clicked it never nests deeper than there are
\* tiles, because a further call is entered only for a tile the step has just moved from
\* Hidden to Revealed.
C16_FillTerminates ==
    /\ (fill = "running") ~> (fill = "done" /\ stack = <<>>)
    /\ [](Len(stack) <= SIZE_X * SIZE_Y + 1 /\ fill /= "RecursionError")
    /\ [][ Len(stack') > Len(stack) /\ fill = "running"
           => /\ state[stack'[Len(stack')].tile] = STATE_DEFAULT
              /\ state'[stack'[Len(stack')].tile] = STATE_CLICKED ]_vars

\* C16 witness: a fill has ended that went through several tiles without adjacent mines
\* on a board with a mine, a Flagged tile and a tile Revealed before the click
C16_Witness ==
    /\ fill = "done"
    /\ stack = <<>>
    /\ mines >= 1
    /\ clickedCount >= 4
    /\ \E u \in Tiles : state[u] = STATE_FLAGGED
    /\ Cardinality({u \in Tiles : tmines[u] = 0 /\ state[u] = STATE_CLICKED}) >= 2

\* ------------------------------------------------------------------ claims, server (2)
\* the slots, the flag and the emits so far after one more report is handled
ThenReport(s, sid, game_time) ==
    LET r == player_finished(s.players, s.game_finished, sid, game_time)
    IN  [players |-> r.players, game_finished |-> r.game_finished,
         emits |-> s.emits \o r.emits]

\* the game_over emits of a match in which the slots report in this order
Arbitrated(ps, first, a, second, b) ==
    ThenReport(ThenReport([players |-> ps, game_finished |-> FALSE, emits |-> <<>>],
                          ps[first].sid, a),
               ps[second].sid, b).emits

\* C15 (as stated): in a match in which no report has been processed yet, for every pair
\* of game_time values, well-formed, equal or malformed, the game_over emitted (its
\* winner, its times, or none at all) is the same whether the first slot's report or the
\* second slot's report is processed first.
C15_OrderIndependent ==
    (Len(players) = 2 /\ game_started /\ ~game_finished /\ fresh = {})
    => \A a \in GameTimes : \A b \in GameTimes :
          Arbitrated(players, 1, a, 2, b) = Arbitrated(players, 2, b, 1, a)

\* C18: whenever no connection holds a slot the session is as at the start (seed unset,
\* not started, not finished), also after a Finished match was torn down; the connect
\* accepted then draws a seed and is "Player A" with no time recorded, and the connect
\* accepted next to it is "Player B" and starts the match with that seed, not finished
\* and no time recorded for the new slot.
C18_EmptyIsInitial ==
    [][ /\ Len(players') = 0
            => (board_seed' = NoSeed /\ ~game_started' /\ ~game_finished' /\ fresh' = {})
        /\ (Len(players) = 0 /\ AcceptedConnect)
            => /\ last'.drew
               /\ board_seed' \in Seeds
               /\ ~game_started' /\ ~game_finished'
               /\ players' = <<[sid |-> last'.sid, id |-> "Player A", finished_time |-> None]>>
        /\ (Len(players) = 1 /\ board_seed /= NoSeed /\ AcceptedConnect)
            => /\ players[1].id = "Player A"
               /\ players' = Append(players, [sid |-> last'.sid, id |-> "Player B",
                                               finished_time |-> None])
               /\ ~last'.drew
               /\ board_seed' = board_seed
               /\ game_started' /\ ~game_finished'
               /\ \A i \in 1..2 : pc_seed'[players'[i].sid] = board_seed'
               /\ EmitsGameStart(emits') ]_vars

\* C18 witness: the session is empty again after both participants of a match left, a
\* third connection refused during the match still being open
C18_Witness ==
    /\ Len(players) = 0
    /\ last.ev = "disconnect"
    /\ board_seed = NoSeed
    /\ ~game_started
    /\ ~game_finished
    /\ rejected /= {}

\* C19 (as stated): the occupied slots carry distinct player ids.
C19_DistinctIds ==
    \A i \in DOMAIN players : \A j \in DOMAIN players :
        i /= j => players[i].id /= players[j].id

\* C20 (as stated): the session becomes Finished, or a game_over naming a winner is
\* emitted, only by a step after which both slots hold a report recorded since the latest
\* game_start.
C20_NoStaleTimes ==
    [][ ((~game_finished /\ game_finished') \/ EmitsWinner(emits'))
        => /\ Len(players') = 2
           /\ \A i \in 1..2 : players'[i].sid \in fresh' ]_vars

\* C21: in every reachable state at most two slots are occupied; game_started implies
\* that exactly two slots are occupied and the seed is set; game_finished implies
\* game_started and that both occupied slots hold a recorded finish time.
C21_PhaseConsistency ==
    /\ Len(players) <= 2
    /\ game_started => (Len(players) = 2 /\ board_seed \in Seeds)
    /\ game_finished
         => /\ game_started
            /\ Len(players) = 2
            /\ \A i \in DOMAIN players : Truthy(players[i].finished_time)

\* C21 witness: a match stands decided, both slots holding a time, while a third
\* connection that was refused is still open
C21_Witness ==
    /\ game_finished
    /\ game_started
    /\ Len(players) = 2
    /\ rejected /= {}
    /\ players[1].finished_time /= players[2].finished_time
    /\ \A i \in 1..2 : WellFormed(players[i].finished_time)

====
